---- MODULE Spec2Model ----
(***************************************************************************)
(* Agora backend: the REST handlers of backend/src/routes (rsvp.ts,        *)
(* subscriptions.ts, events.ts, calendar) over the relational store.       *)
(*                                                                         *)
(* A handler is a sequence of steps, one per store round trip (each        *)
(* `await supabase...`): the JavaScript between two awaits runs without    *)
(* interruption, a store operation is atomic, and other requests may run   *)
(* between two steps of one request.  Every request runs in a slot; pc is  *)
(* the slot's position in its handler.                                     *)
(*                                                                         *)
(* Encodings: eventID and subID are positive integers, 0 is an absent or   *)
(* falsy value; a string field that is absent or falsy is "".  A timestamp *)
(* is a positive number of ticks, 0 is an absent date.  Where the code     *)
(* tells undefined from null (the PUT bodies), Undefined and Null are      *)
(* their own values; Null is also SQL NULL in a stored row.                *)
(***************************************************************************)
EXTENDS Integers, Sequences, FiniteSets, Bags, TLC

VARIABLES
    events,       \* table events: set of rows
    rsvps,        \* table rsvps: bag of rows [userID, eventID, status]
    subs,         \* table subscriptions: set of rows
    gicsCompanies,\* table gics_companies, in companyName order
    nextEventID,  \* next eventID the store generates
    nextSubID,    \* next subID the store generates
    pc,           \* pc[p]: position of slot p in its handler
    req,          \* req[p]: the request slot p is serving
    loc,          \* loc[p]: the handler's local variables
    resp,         \* resp[p]: the response sent by slot p
    lastDone      \* the request that completed last, when it was an RSVP
                  \* request that succeeded

vars == <<events, rsvps, subs, gicsCompanies, nextEventID, nextSubID, pc, req, loc, resp, lastDone>>

store == <<events, rsvps, subs, gicsCompanies, nextEventID, nextSubID>>

----------------------------------------------------------------------------
(* Bounds *)

NumSlots == 2
MaxRsvpRows == 2
MaxSubs == 2
MaxEvents == 1
MaxTick == 2
MaxCompanies == 2
MaxCalTick == 7
TicksPerDay == 2
MaxWeekTick == 13

Slots == 1..NumSlots

----------------------------------------------------------------------------
(* Users and roles (the session token carries userID and role) *)

Users == {"sarah", "michael", "david"}

Role(u) ==
    IF u = "sarah" THEN "IR_ADMIN"
    ELSE IF u = "michael" THEN "ANALYST_MANAGER"
    ELSE "INVESTMENT_ANALYST"

\* a validation that lets one more status through
validStatusesLoose == {"ACCEPTED", "DECLINED", "TENTATIVE", "PENDING", "MAYBE"}

validStatuses == {"ACCEPTED", "DECLINED", "TENTATIVE", "PENDING"}

----------------------------------------------------------------------------
(* The store *)

\* PostgREST .single(): data when exactly one row matches, an error otherwise
SingleOk(n) == n = 1

\* an event lookup that finds a row for every id
EventExistsAlways(eventID) == TRUE

EventExists(eventID) == \E ev \in events : ev.eventID = eventID

\* rows of table rsvps with .eq('userID', u).eq('eventID', e)
RsvpMatch(u, e) == {r \in BagToSet(rsvps) : r.userID = u /\ r.eventID = e}

RsvpBagFor(u, e) == [r \in RsvpMatch(u, e) |-> rsvps[r]]

RsvpCount(u, e) == BagCardinality(RsvpBagFor(u, e))

RsvpRow(u, e, s) == [userID |-> u, eventID |-> e, status |-> s]

\* an insert that leaves the table alone when the pair already has a row
RsvpInsertIfAbsent(u, e, s) ==
    IF RsvpCount(u, e) > 0 THEN rsvps ELSE rsvps (+) SetToBag({RsvpRow(u, e, s)})

\* .insert({userID, eventID, status})
RsvpInsert(u, e, s) == rsvps (+) SetToBag({RsvpRow(u, e, s)})

\* an update that writes nothing
RsvpUpdateKeepsStatus(u, e, s) == rsvps

\* .update({status}).eq('userID', u).eq('eventID', e), one row matching
RsvpUpdate(u, e, s) == (rsvps (-) RsvpBagFor(u, e)) (+) SetToBag({RsvpRow(u, e, s)})

\* a delete that removes nothing
RsvpDeleteNothing(u, e) == rsvps

\* a delete filtered by the user alone
RsvpDeleteAllOfUser(u, e) ==
    LET mine == {r \in BagToSet(rsvps) : r.userID = u}
    IN  rsvps (-) [r \in mine |-> rsvps[r]]

\* .delete().eq('userID', u).eq('eventID', e)
RsvpDelete(u, e) == rsvps (-) RsvpBagFor(u, e)

\* the rsvps table references events: a row is accepted only for an event that
\* exists (the relation the nested selects of rsvp.ts 125-131 go through)
ForeignKeyOk(eventID) == \E ev \in events : ev.eventID = eventID

\* deleting an event without taking its RSVP rows along
RsvpCascadeNone(id) == rsvps

\* deleting an event takes the RSVP rows that reference it along, in the store
RsvpCascade(id) ==
    LET gone == {r \in BagToSet(rsvps) : r.eventID = id}
    IN  rsvps (-) [r \in gone |-> rsvps[r]]

----------------------------------------------------------------------------
(* Slots *)

\* the tables as a request finds them when it starts
Tables == [events |-> events, rsvps |-> rsvps, subs |-> subs]

NoReq == [kind |-> "none"]
NoLoc == [storeOps |-> 0]
NoResp == [code |-> 0, msg |-> ""]
NoDone == [kind |-> "none"]

Reply(code, msg) == [code |-> code, msg |-> msg]

Idle(p) == pc[p] = "idle"

\* requests run one at a time
Sequential(p) == \A q \in Slots : Idle(q)

\* the slot answers and the handler returns
Done(p, r) ==
    /\ pc' = [pc EXCEPT ![p] = "done"]
    /\ resp' = [resp EXCEPT ![p] = r]

Goto(p, l) ==
    /\ pc' = [pc EXCEPT ![p] = l]
    /\ UNCHANGED resp

Ops(p) == loc[p].storeOps

\* what a completed request leaves in lastDone
Summary(p) ==
    IF resp[p].code \in {200, 201} /\ req[p].kind \in {"rsvpPost", "rsvpDelete"}
    THEN [kind |-> req[p].kind, req |-> req[p], msg |-> resp[p].msg]
    ELSE NoDone

\* the response is out; the slot is free again
Finish(p) ==
    /\ pc[p] = "done"
    /\ lastDone' = Summary(p)
    /\ pc' = [pc EXCEPT ![p] = "idle"]
    /\ req' = [req EXCEPT ![p] = NoReq]
    /\ loc' = [loc EXCEPT ![p] = NoLoc]
    /\ resp' = [resp EXCEPT ![p] = NoResp]
    /\ UNCHANGED store

----------------------------------------------------------------------------
(* POST /api/rsvp *)

\* the bound on the table: rows present, rows requests in flight may insert,
\* and the row this request inserts unless it finds one to update
RsvpRoom(u, e) ==
    BagCardinality(rsvps)
      + Cardinality({q \in Slots : req[q].kind = "rsvpPost" /\ pc[q] # "done"})
      + (IF RsvpCount(u, e) = 1 THEN 0 ELSE 1)
      <= MaxRsvpRows

\* rsvp.ts 10-21: body fields and status validation, before any store access
RsvpPostBegin(p, userID, eventID, status) ==
    /\ Idle(p)
    /\ req' = [req EXCEPT ![p] = [kind |-> "rsvpPost", userID |-> userID,
                                  eventID |-> eventID, status |-> status]]
    /\ loc' = [loc EXCEPT ![p] = [storeOps |-> 0, before |-> Tables,
                                  existingRSVP |-> FALSE]]
    /\ IF eventID = 0 \/ status = ""
       THEN Done(p, Reply(400, "Event ID and status are required"))
       ELSE IF status \notin validStatuses
       THEN Done(p, Reply(400, "Invalid RSVP status"))
       ELSE Goto(p, "rsvpCheckEvent")
    /\ UNCHANGED <<store, lastDone>>

\* rsvp.ts 23-35: the event lookup
RsvpPostCheckEvent(p) ==
    /\ pc[p] = "rsvpCheckEvent"
    /\ loc' = [loc EXCEPT ![p].storeOps = @ + 1]
    /\ IF ~EventExists(req[p].eventID)
       THEN Done(p, Reply(404, "Event not found"))
       ELSE Goto(p, "rsvpCheckRsvp")
    /\ UNCHANGED <<store, req, lastDone>>

\* rsvp.ts 37-46: the existence lookup
RsvpPostCheckRsvp(p) ==
    /\ pc[p] = "rsvpCheckRsvp"
    /\ loc' = [loc EXCEPT ![p].storeOps = @ + 1,
                          ![p].existingRSVP = SingleOk(RsvpCount(req[p].userID, req[p].eventID))]
    /\ Goto(p, "rsvpWrite")
    /\ UNCHANGED <<store, req, lastDone>>

\* a reply that does not tell the two paths apart
RsvpMessageAlwaysCreated(existingRSVP) == "RSVP created successfully"

RsvpMessage(existingRSVP) ==
    IF existingRSVP THEN "RSVP updated successfully" ELSE "RSVP created successfully"

\* rsvp.ts 46-99: the update path or the create path, then the reply.  The
\* update ends in .single(): unless exactly one row matches, the store
\* answers an error and the write does not take effect.
RsvpPostWrite(p) ==
    LET u == req[p].userID
        e == req[p].eventID
        s == req[p].status
    IN  /\ pc[p] = "rsvpWrite"
        /\ loc' = [loc EXCEPT ![p].storeOps = @ + 1]
        /\ IF loc[p].existingRSVP
           THEN IF SingleOk(RsvpCount(u, e))
                THEN /\ rsvps' = RsvpUpdate(u, e, s)
                     /\ Done(p, Reply(200, RsvpMessage(loc[p].existingRSVP)))
                ELSE /\ UNCHANGED rsvps
                     /\ Done(p, Reply(500, "Failed to update RSVP"))
           ELSE IF ForeignKeyOk(e)
                THEN /\ rsvps' = RsvpInsert(u, e, s)
                     /\ Done(p, Reply(200, RsvpMessage(loc[p].existingRSVP)))
                ELSE /\ UNCHANGED rsvps
                     /\ Done(p, Reply(500, "Failed to create RSVP"))
        /\ UNCHANGED <<gicsCompanies, events, subs, nextEventID, nextSubID, req, lastDone>>

----------------------------------------------------------------------------
(* DELETE /api/rsvp/:eventID *)

\* rsvp.ts 201-202
RsvpDeleteBegin(p, userID, eventID) ==
    /\ Idle(p)
    /\ req' = [req EXCEPT ![p] = [kind |-> "rsvpDelete", userID |-> userID,
                                  eventID |-> eventID]]
    /\ loc' = [loc EXCEPT ![p] = [storeOps |-> 0, before |-> Tables]]
    /\ Goto(p, "rsvpFind")
    /\ UNCHANGED <<store, lastDone>>

\* rsvp.ts 204-213
RsvpDeleteFind(p) ==
    /\ pc[p] = "rsvpFind"
    /\ loc' = [loc EXCEPT ![p].storeOps = @ + 1]
    /\ IF ~SingleOk(RsvpCount(req[p].userID, req[p].eventID))
       THEN Done(p, Reply(404, "RSVP not found"))
       ELSE Goto(p, "rsvpRemove")
    /\ UNCHANGED <<store, req, lastDone>>

\* rsvp.ts 215-226
RsvpDeleteRemove(p) ==
    /\ pc[p] = "rsvpRemove"
    /\ loc' = [loc EXCEPT ![p].storeOps = @ + 1]
    /\ rsvps' = RsvpDelete(req[p].userID, req[p].eventID)
    /\ Done(p, Reply(200, "RSVP deleted successfully"))
    /\ UNCHANGED <<gicsCompanies, events, subs, nextEventID, nextSubID, req, lastDone>>

----------------------------------------------------------------------------
(* GET /api/rsvp/user/:userID *)

\* a permission test that lets every caller through
CanViewAnyone(userID, requestingUser) == TRUE

\* rsvp.ts 113: the named user, a manager or an admin
CanView(userID, requestingUser) ==
    \/ userID = requestingUser
    \/ Role(requestingUser) = "ANALYST_MANAGER"
    \/ Role(requestingUser) = "IR_ADMIN"

\* rsvp.ts 116-126: the rows of the named user
RsvpsOfUser(userID) ==
    LET mine == {r \in BagToSet(rsvps) : r.userID = userID}
    IN  [r \in mine |-> rsvps[r]]

\* rsvp.ts 108-115
RsvpUserBegin(p, requestingUser, userID) ==
    /\ Idle(p)
    /\ req' = [req EXCEPT ![p] = [kind |-> "rsvpUser", userID |-> requestingUser,
                                  named |-> userID]]
    /\ loc' = [loc EXCEPT ![p] = [storeOps |-> 0, before |-> Tables]]
    /\ IF ~CanView(userID, requestingUser)
       THEN Done(p, Reply(403, "Insufficient permissions"))
       ELSE Goto(p, "rsvpUserQuery")
    /\ UNCHANGED <<store, lastDone>>

\* rsvp.ts 116-135
RsvpUserQuery(p) ==
    /\ pc[p] = "rsvpUserQuery"
    /\ loc' = [loc EXCEPT ![p].storeOps = @ + 1]
    /\ pc' = [pc EXCEPT ![p] = "done"]
    /\ resp' = [resp EXCEPT ![p] =
                   [code |-> 200, msg |-> "", rsvps |-> RsvpsOfUser(req[p].named)]]
    /\ UNCHANGED <<store, req, lastDone>>

----------------------------------------------------------------------------
(* Table subscriptions *)

Undefined == "<undefined>"
Null == "<null>"

\* .eq(column, v) is the SQL comparison column = v: it selects no row whose
\* column is NULL, and no row at all when v is null (that takes .is())
SqlEq(col, v) == col # Null /\ v # Null /\ col = v

\* x || null
OrNull(x) == IF x = "" \/ x = Undefined THEN Null ELSE x

SubRow(id, u, sector, subCategory, subEnd, status) ==
    [subID |-> id, userID |-> u, gicsSector |-> sector,
     gicsSubCategory |-> subCategory, subEnd |-> subEnd, status |-> status]

\* subscriptions.ts 51-58: the duplicate lookup
existingSubscriptions(u, gicsSector, gicsSubCategory) ==
    {r \in subs : /\ SqlEq(r.userID, u)
                  /\ SqlEq(r.gicsSector, gicsSector)
                  /\ SqlEq(r.gicsSubCategory, OrNull(gicsSubCategory))
                  /\ SqlEq(r.status, "ACTIVE")}

SubByID(id) == {r \in subs : r.subID = id}

\* an ownership check that lets every caller through
OwnerAny(existingSubscription, userID) == TRUE

\* subscriptions.ts 118, 177: stored userID against the caller
Owner(existingSubscription, userID) == existingSubscription.userID = userID

validSubStatuses == {"ACTIVE", "INACTIVE", "EXPIRED"}

----------------------------------------------------------------------------
(* POST /api/subscriptions *)

\* the bound on the subIDs the store hands out: those used, and those the
\* requests in flight may use
SubRoom ==
    nextSubID + Cardinality({q \in Slots : req[q].kind = "subPost" /\ pc[q] # "done"})
      <= MaxSubs

\* subscriptions.ts 43-48
SubPostBegin(p, userID, gicsSector, gicsSubCategory, subEnd) ==
    /\ Idle(p)
    /\ SubRoom
    /\ req' = [req EXCEPT ![p] = [kind |-> "subPost", userID |-> userID,
                                  gicsSector |-> gicsSector,
                                  gicsSubCategory |-> gicsSubCategory,
                                  subEnd |-> subEnd]]
    /\ loc' = [loc EXCEPT ![p] = [storeOps |-> 0, before |-> Tables]]
    /\ IF gicsSector = ""
       THEN Done(p, Reply(400, "GICS sector is required"))
       ELSE Goto(p, "subCheck")
    /\ UNCHANGED <<store, lastDone>>

\* subscriptions.ts 50-67
SubPostCheck(p) ==
    /\ pc[p] = "subCheck"
    /\ loc' = [loc EXCEPT ![p].storeOps = @ + 1]
    /\ IF existingSubscriptions(req[p].userID, req[p].gicsSector,
                                req[p].gicsSubCategory) # {}
       THEN Done(p, Reply(409, "Similar active subscription already exists"))
       ELSE Goto(p, "subInsert")
    /\ UNCHANGED <<store, req, lastDone>>

\* an insert the store refuses when the user has an ACTIVE row for the tuple
SubPostInsertUnique(p) ==
    /\ pc[p] = "subInsert"
    /\ loc' = [loc EXCEPT ![p].storeOps = @ + 1]
    /\ IF \E r \in subs : /\ r.userID = req[p].userID
                           /\ r.gicsSector = req[p].gicsSector
                           /\ r.gicsSubCategory = OrNull(req[p].gicsSubCategory)
                           /\ r.status = "ACTIVE"
       THEN /\ UNCHANGED <<subs, nextSubID>>
            /\ Done(p, Reply(500, "Failed to create subscription"))
       ELSE /\ subs' = subs \cup {SubRow(nextSubID, req[p].userID, req[p].gicsSector,
                                            OrNull(req[p].gicsSubCategory),
                                            OrNull(req[p].subEnd), "ACTIVE")}
            /\ nextSubID' = nextSubID + 1
            /\ Done(p, Reply(201, "Subscription created successfully"))
    /\ UNCHANGED <<gicsCompanies, events, rsvps, nextEventID, req, lastDone>>

\* subscriptions.ts 69-93
SubPostInsert(p) ==
    /\ pc[p] = "subInsert"
    /\ loc' = [loc EXCEPT ![p].storeOps = @ + 1]
    /\ subs' = subs \cup {SubRow(nextSubID, req[p].userID, req[p].gicsSector,
                                 OrNull(req[p].gicsSubCategory),
                                 OrNull(req[p].subEnd), "ACTIVE")}
    /\ nextSubID' = nextSubID + 1
    /\ Done(p, Reply(201, "Subscription created successfully"))
    /\ UNCHANGED <<gicsCompanies, events, rsvps, nextEventID, req, lastDone>>

----------------------------------------------------------------------------
(* PUT /api/subscriptions/:id *)

\* subscriptions.ts 103-105
SubPutBegin(p, userID, id, gicsSector, gicsSubCategory, subEnd, status) ==
    /\ Idle(p)
    /\ req' = [req EXCEPT ![p] = [kind |-> "subPut", userID |-> userID, id |-> id,
                                  gicsSector |-> gicsSector,
                                  gicsSubCategory |-> gicsSubCategory,
                                  subEnd |-> subEnd, status |-> status]]
    /\ loc' = [loc EXCEPT ![p] = [storeOps |-> 0, before |-> Tables]]
    /\ Goto(p, "subPutCheck")
    /\ UNCHANGED <<store, lastDone>>

\* subscriptions.ts 107-126
SubPutCheck(p) ==
    /\ pc[p] = "subPutCheck"
    /\ loc' = [loc EXCEPT ![p].storeOps = @ + 1]
    /\ IF ~SingleOk(Cardinality(SubByID(req[p].id)))
       THEN Done(p, Reply(404, "Subscription not found"))
       ELSE IF ~Owner(CHOOSE r \in SubByID(req[p].id) : TRUE, req[p].userID)
       THEN Done(p, Reply(403, "Insufficient permissions"))
       ELSE IF req[p].status \notin {Undefined, Null, ""}
                 /\ req[p].status \notin validSubStatuses
       THEN Done(p, Reply(400, "Invalid subscription status"))
       ELSE Goto(p, "subPutWrite")
    /\ UNCHANGED <<store, req, lastDone>>

\* subscriptions.ts 128-133: updateData applied to a row
SubUpdated(r, b) ==
    [r EXCEPT
       !.gicsSector = IF b.gicsSector # Undefined THEN b.gicsSector ELSE @,
       !.gicsSubCategory = IF b.gicsSubCategory # Undefined THEN b.gicsSubCategory ELSE @,
       !.subEnd = IF b.subEnd # Undefined THEN OrNull(b.subEnd) ELSE @,
       !.status = IF b.status # Undefined THEN b.status ELSE @]

\* subscriptions.ts 135-153
SubPutWrite(p) ==
    /\ pc[p] = "subPutWrite"
    /\ loc' = [loc EXCEPT ![p].storeOps = @ + 1]
    /\ IF SingleOk(Cardinality(SubByID(req[p].id)))
       THEN /\ subs' = (subs \ SubByID(req[p].id))
                         \cup {SubUpdated(r, req[p]) : r \in SubByID(req[p].id)}
            /\ Done(p, Reply(200, "Subscription updated successfully"))
       ELSE /\ UNCHANGED subs
            /\ Done(p, Reply(500, "Failed to update subscription"))
    /\ UNCHANGED <<gicsCompanies, events, rsvps, nextEventID, nextSubID, req, lastDone>>

----------------------------------------------------------------------------
(* DELETE /api/subscriptions/:id *)

\* subscriptions.ts 163-164
SubDeleteBegin(p, userID, id) ==
    /\ Idle(p)
    /\ req' = [req EXCEPT ![p] = [kind |-> "subDelete", userID |-> userID, id |-> id]]
    /\ loc' = [loc EXCEPT ![p] = [storeOps |-> 0, before |-> Tables]]
    /\ Goto(p, "subDeleteCheck")
    /\ UNCHANGED <<store, lastDone>>

\* a DELETE that looks the subscription up and does not compare its owner
SubDeleteCheckNoOwner(p) ==
    /\ pc[p] = "subDeleteCheck"
    /\ loc' = [loc EXCEPT ![p].storeOps = @ + 1]
    /\ IF ~SingleOk(Cardinality(SubByID(req[p].id)))
       THEN Done(p, Reply(404, "Subscription not found"))
       ELSE Goto(p, "subDeleteRemove")
    /\ UNCHANGED <<store, req, lastDone>>

\* subscriptions.ts 166-179
SubDeleteCheck(p) ==
    /\ pc[p] = "subDeleteCheck"
    /\ loc' = [loc EXCEPT ![p].storeOps = @ + 1]
    /\ IF ~SingleOk(Cardinality(SubByID(req[p].id)))
       THEN Done(p, Reply(404, "Subscription not found"))
       ELSE IF ~Owner(CHOOSE r \in SubByID(req[p].id) : TRUE, req[p].userID)
       THEN Done(p, Reply(403, "Insufficient permissions"))
       ELSE Goto(p, "subDeleteRemove")
    /\ UNCHANGED <<store, req, lastDone>>

\* subscriptions.ts 181-191
SubDeleteRemove(p) ==
    /\ pc[p] = "subDeleteRemove"
    /\ loc' = [loc EXCEPT ![p].storeOps = @ + 1]
    /\ subs' = subs \ SubByID(req[p].id)
    /\ Done(p, Reply(200, "Subscription deleted successfully"))
    /\ UNCHANGED <<gicsCompanies, events, rsvps, nextEventID, nextSubID, req, lastDone>>

----------------------------------------------------------------------------
(* Table events; POST, PUT, DELETE /api/events *)

\* middleware requireRole(roles): the handler body runs only for a caller
\* whose session role is listed
RequireRole(u, roles) == Role(u) \in roles

validEventTypes == {"EARNINGS_CALL", "INVESTOR_MEETING", "CONFERENCE", "ROADSHOW",
                    "ANALYST_DAY", "PRODUCT_LAUNCH", "OTHER"}

\* a date check that lets an end on the start through
EndNotAfterStrict(start, end) == end > 0 /\ end < start

\* events.ts 148, 229: end && end <= start
EndNotAfter(start, end) == end > 0 /\ end <= start

EventByID(id) == {ev \in events : ev.eventID = id}

EventRoom ==
    nextEventID + Cardinality({q \in Slots : req[q].kind = "eventPost" /\ pc[q] # "done"})
      <= MaxEvents

\* events.ts 117-150: role, required fields, event type, dates
EventPostBegin(p, userID, eventName, eventType, startDate, endDate) ==
    /\ Idle(p)
    /\ EventRoom
    /\ req' = [req EXCEPT ![p] = [kind |-> "eventPost", userID |-> userID,
                                  eventName |-> eventName, eventType |-> eventType,
                                  startDate |-> startDate, endDate |-> endDate]]
    /\ loc' = [loc EXCEPT ![p] = [storeOps |-> 0, before |-> Tables]]
    /\ IF ~RequireRole(userID, {"IR_ADMIN"})
       THEN Done(p, Reply(403, "Insufficient permissions"))
       ELSE IF eventName = "" \/ eventType = "" \/ startDate = 0
       THEN Done(p, Reply(400, "Event name, type, and start date are required"))
       ELSE IF eventType \notin validEventTypes
       THEN Done(p, Reply(400, "Invalid event type"))
       ELSE IF EndNotAfter(startDate, endDate)
       THEN Done(p, Reply(400, "End date must be after start date"))
       ELSE Goto(p, "eventInsert")
    /\ UNCHANGED <<store, lastDone>>

\* events.ts 152-182
EventPostInsert(p) ==
    /\ pc[p] = "eventInsert"
    /\ loc' = [loc EXCEPT ![p].storeOps = @ + 1]
    /\ events' = events \cup
          {[eventID |-> nextEventID, eventName |-> req[p].eventName,
            tickerSymbol |-> "ACME", gicsSector |-> "Technology",
            eventType |-> req[p].eventType,
            startDate |-> req[p].startDate, endDate |-> req[p].endDate]}
    /\ nextEventID' = nextEventID + 1
    /\ Done(p, Reply(201, "Event created successfully"))
    /\ UNCHANGED <<gicsCompanies, rsvps, subs, nextSubID, req, lastDone>>

\* PUT /events/:id registered without the role middleware
EventPutBeginNoRole(p, userID, id, eventName, eventType, startDate, endDate) ==
    /\ Idle(p)
    /\ req' = [req EXCEPT ![p] = [kind |-> "eventPut", userID |-> userID, id |-> id,
                                  eventName |-> eventName, eventType |-> eventType,
                                  startDate |-> startDate, endDate |-> endDate]]
    /\ loc' = [loc EXCEPT ![p] = [storeOps |-> 0, before |-> Tables]]
    /\ Goto(p, "eventPutCheck")
    /\ UNCHANGED <<store, lastDone>>

\* events.ts 190-205.  In the body a field that is undefined is "" (0 for a
\* date); endDate may also be null, which is -1.
EventPutBegin(p, userID, id, eventName, eventType, startDate, endDate) ==
    /\ Idle(p)
    /\ req' = [req EXCEPT ![p] = [kind |-> "eventPut", userID |-> userID, id |-> id,
                                  eventName |-> eventName, eventType |-> eventType,
                                  startDate |-> startDate, endDate |-> endDate]]
    /\ loc' = [loc EXCEPT ![p] = [storeOps |-> 0, before |-> Tables]]
    /\ IF ~RequireRole(userID, {"IR_ADMIN"})
       THEN Done(p, Reply(403, "Insufficient permissions"))
       ELSE Goto(p, "eventPutCheck")
    /\ UNCHANGED <<store, lastDone>>

\* events.ts 225-232: end is computed only when startDate is supplied
PutEnd(startDate, endDate) ==
    IF startDate > 0 /\ endDate > 0 THEN endDate ELSE 0

\* events.ts 207-232
EventPutCheck(p) ==
    /\ pc[p] = "eventPutCheck"
    /\ loc' = [loc EXCEPT ![p].storeOps = @ + 1]
    /\ IF ~SingleOk(Cardinality(EventByID(req[p].id)))
       THEN Done(p, Reply(404, "Event not found"))
       ELSE IF req[p].eventType # "" /\ req[p].eventType \notin validEventTypes
       THEN Done(p, Reply(400, "Invalid event type"))
       ELSE IF req[p].startDate > 0
                 /\ EndNotAfter(req[p].startDate, PutEnd(req[p].startDate, req[p].endDate))
       THEN Done(p, Reply(400, "End date must be after start date"))
       ELSE Goto(p, "eventPutWrite")
    /\ UNCHANGED <<store, req, lastDone>>

\* events.ts 234-246: updateData applied to a row
EventUpdated(ev, b) ==
    [ev EXCEPT
       !.eventName = IF b.eventName # "" THEN b.eventName ELSE @,
       !.eventType = IF b.eventType # "" THEN b.eventType ELSE @,
       !.startDate = IF b.startDate # 0 THEN b.startDate ELSE @,
       !.endDate = IF b.endDate # 0 THEN PutEnd(b.startDate, b.endDate) ELSE @]

\* events.ts 248-267
EventPutWrite(p) ==
    /\ pc[p] = "eventPutWrite"
    /\ loc' = [loc EXCEPT ![p].storeOps = @ + 1]
    /\ IF SingleOk(Cardinality(EventByID(req[p].id)))
       THEN /\ events' = (events \ EventByID(req[p].id))
                           \cup {EventUpdated(ev, req[p]) : ev \in EventByID(req[p].id)}
            /\ Done(p, Reply(200, "Event updated successfully"))
       ELSE /\ UNCHANGED events
            /\ Done(p, Reply(500, "Failed to update event"))
    /\ UNCHANGED <<gicsCompanies, rsvps, subs, nextEventID, nextSubID, req, lastDone>>

\* events.ts 275-277
EventDeleteBegin(p, userID, id) ==
    /\ Idle(p)
    /\ req' = [req EXCEPT ![p] = [kind |-> "eventDelete", userID |-> userID, id |-> id]]
    /\ loc' = [loc EXCEPT ![p] = [storeOps |-> 0, before |-> Tables]]
    /\ IF ~RequireRole(userID, {"IR_ADMIN"})
       THEN Done(p, Reply(403, "Insufficient permissions"))
       ELSE Goto(p, "eventDeleteCheck")
    /\ UNCHANGED <<store, lastDone>>

\* events.ts 279-288
EventDeleteCheck(p) ==
    /\ pc[p] = "eventDeleteCheck"
    /\ loc' = [loc EXCEPT ![p].storeOps = @ + 1]
    /\ IF ~SingleOk(Cardinality(EventByID(req[p].id)))
       THEN Done(p, Reply(404, "Event not found"))
       ELSE Goto(p, "eventDeleteRemove")
    /\ UNCHANGED <<store, req, lastDone>>

\* events.ts 290-300: the handler deletes the event row; the rows that
\* reference it go with it in the store
EventDeleteRemove(p) ==
    /\ pc[p] = "eventDeleteRemove"
    /\ loc' = [loc EXCEPT ![p].storeOps = @ + 1]
    /\ events' = events \ EventByID(req[p].id)
    /\ rsvps' = RsvpCascade(req[p].id)
    /\ Done(p, Reply(200, "Event deleted successfully"))
    /\ UNCHANGED <<gicsCompanies, subs, nextEventID, nextSubID, req, lastDone>>

----------------------------------------------------------------------------
(* GET /api/calendar *)

\* date.toISOString().split('T')[0]: the calendar date of a timestamp
DateKey(t) == t \div TicksPerDay

\* events.ts 542-568: the event query, each event with its rsvps
EventQuery(start, end, gicsSector, eventType, followedCompanies) ==
    {ev \in events :
        /\ ev.startDate >= start
        /\ ev.startDate <= end
        /\ gicsSector # "" => SqlEq(ev.gicsSector, gicsSector)
        /\ eventType # "" => SqlEq(ev.eventType, eventType)
        /\ followedCompanies # {} => ev.tickerSymbol \in followedCompanies}

\* rsvps(*) nested in an event: the rows of every user for the event
EventRsvps(ev) == {r \in BagToSet(rsvps) : r.eventID = ev.eventID}

NoRsvp == [userID |-> "", eventID |-> 0, status |-> ""]

\* events.ts 604: event.rsvps?.find(rsvp => rsvp.userID === req.user?.userID)
UserRsvp(rows, userID) ==
    IF \E r \in rows : r.userID = userID
    THEN CHOOSE r \in rows : r.userID = userID
    ELSE NoRsvp

\* events.ts 590-593: the events of a company
CompanyEvents(evs, company) ==
    {x \in evs : x.event.tickerSymbol = company.tickerSymbol}

\* events.ts 596-606: a company's events by date (a bucket is kept as a set)
EventsByDate(evs, company, userID) ==
    [d \in {DateKey(x.event.startDate) : x \in CompanyEvents(evs, company)} |->
        {[event |-> x.event, rsvps |-> x.rsvps, userRsvp |-> UserRsvp(x.rsvps, userID)] :
            x \in {y \in CompanyEvents(evs, company) : DateKey(y.event.startDate) = d}}]

CompanyRow(evs, company, userID) ==
    [company |-> company, events |-> EventsByDate(evs, company, userID)]

\* a grid that keeps only the companies that have events
CalendarDataNoEmptyRows(evs, companies, userID) ==
    SelectSeq([i \in 1..Len(companies) |-> CompanyRow(evs, companies[i], userID)],
              LAMBDA row : DOMAIN row.events # {})

\* events.ts 589-617: gicsCompanies.map(...)
CalendarData(evs, companies, userID) ==
    [i \in 1..Len(companies) |-> CompanyRow(evs, companies[i], userID)]

RECURSIVE DateGridFrom(_, _)
\* events.ts 619-625: one entry per pass, current.setDate(current.getDate() + 1)
\* (a day later at the same time of day, in a zone with no clock change)
DateGridFrom(current, end) ==
    IF current <= end
    THEN <<DateKey(current)>> \o DateGridFrom(current + TicksPerDay, end)
    ELSE <<>>

\* events.ts 529-539, with startDate and endDate supplied
CalendarBegin(p, userID, startDate, endDate, gicsSector, eventType, followedCompanies) ==
    /\ Idle(p)
    /\ req' = [req EXCEPT ![p] = [kind |-> "calendar", userID |-> userID,
                                  startDate |-> startDate, endDate |-> endDate,
                                  gicsSector |-> gicsSector, eventType |-> eventType,
                                  followedCompanies |-> followedCompanies]]
    /\ loc' = [loc EXCEPT ![p] = [storeOps |-> 0, before |-> Tables, events |-> {},
                                  calendarData |-> <<>>, dateGrid |-> <<>>]]
    /\ Goto(p, "calEvents")
    /\ UNCHANGED <<store, lastDone>>

\* events.ts 541-575
CalendarEvents(p) ==
    /\ pc[p] = "calEvents"
    /\ loc' = [loc EXCEPT
                 ![p].storeOps = @ + 1,
                 ![p].events =
                     {[event |-> ev, rsvps |-> EventRsvps(ev)] :
                        ev \in EventQuery(req[p].startDate, req[p].endDate,
                                          req[p].gicsSector, req[p].eventType,
                                          req[p].followedCompanies)}]
    /\ Goto(p, "calCompanies")
    /\ UNCHANGED <<store, req, lastDone>>

\* events.ts 577-625
CalendarCompanies(p) ==
    /\ pc[p] = "calCompanies"
    /\ loc' = [loc EXCEPT
                 ![p].storeOps = @ + 1,
                 ![p].calendarData = CalendarData(loc[p].events, gicsCompanies,
                                                  req[p].userID),
                 ![p].dateGrid = DateGridFrom(req[p].startDate, req[p].endDate)]
    /\ Goto(p, "calSubscriptions")
    /\ UNCHANGED <<store, req, lastDone>>

\* events.ts 627-662
CalendarSubscriptions(p) ==
    /\ pc[p] = "calSubscriptions"
    /\ loc' = [loc EXCEPT ![p].storeOps = @ + 1]
    /\ pc' = [pc EXCEPT ![p] = "done"]
    /\ resp' = [resp EXCEPT ![p] =
          [code |-> 200, msg |-> "",
           calendarData |-> loc[p].calendarData,
           dateGrid |-> loc[p].dateGrid,
           dateRange |-> [start |-> DateKey(req[p].startDate),
                          end |-> DateKey(req[p].endDate)],
           userSubscriptions |->
               {r \in subs : SqlEq(r.userID, req[p].userID) /\ SqlEq(r.status, "ACTIVE")},
           statistics |->
               [totalEvents |-> Cardinality(loc[p].events),
                userRsvps |-> Cardinality({r \in UNION {x.rsvps : x \in loc[p].events} :
                                              r.userID = req[p].userID})]]]
    /\ UNCHANGED <<store, req, lastDone>>

----------------------------------------------------------------------------
(* GET /api/calendar/week *)

\* Date.getDay(): 0 is Sunday.  Day 0 of the time axis is a Friday.
GetDay(t) == (DateKey(t) + 5) % 7

DayNames == <<"Sunday", "Monday", "Tuesday", "Wednesday", "Thursday", "Friday",
              "Saturday">>

\* toLocaleDateString('en-US', {weekday: 'long'})
DayName(t) == DayNames[GetDay(t) + 1]

\* events.ts 677: setDate(getDate() - getDay() + 1), the time of day is kept
StartOfWeek(targetDate) == targetDate + (1 - GetDay(targetDate)) * TicksPerDay

\* events.ts 680-682: six days on, at the last instant of that day
EndOfWeek(startOfWeek) == (DateKey(startOfWeek) + 7) * TicksPerDay - 1

\* events.ts 684-694: events of the week that have an RSVP row of the caller
WeekQuery(startOfWeek, endOfWeek, userID) ==
    {ev \in events :
        /\ ev.startDate >= startOfWeek
        /\ ev.startDate <= endOfWeek
        /\ \E r \in EventRsvps(ev) : SqlEq(r.userID, userID)}

\* events.ts 702-718: seven buckets from startOfWeek on
WeekData(startOfWeek, evs) ==
    [i \in 1..7 |->
        LET currentDay == startOfWeek + (i - 1) * TicksPerDay
        IN  [date |-> DateKey(currentDay),
             dayName |-> DayName(currentDay),
             events |-> {ev \in evs : DateKey(ev.startDate) = DateKey(currentDay)}]]

\* events.ts 670-682, with the date supplied
WeekBegin(p, userID, date) ==
    /\ Idle(p)
    /\ req' = [req EXCEPT ![p] = [kind |-> "week", userID |-> userID, date |-> date]]
    /\ loc' = [loc EXCEPT ![p] = [storeOps |-> 0, before |-> Tables,
                                  startOfWeek |-> StartOfWeek(date),
                                  endOfWeek |-> EndOfWeek(StartOfWeek(date))]]
    /\ Goto(p, "weekEvents")
    /\ UNCHANGED <<store, lastDone>>

\* events.ts 684-726
WeekEvents(p) ==
    /\ pc[p] = "weekEvents"
    /\ loc' = [loc EXCEPT ![p].storeOps = @ + 1]
    /\ pc' = [pc EXCEPT ![p] = "done"]
    /\ resp' = [resp EXCEPT ![p] =
          [code |-> 200, msg |-> "",
           weekData |-> WeekData(loc[p].startOfWeek,
                                 WeekQuery(loc[p].startOfWeek, loc[p].endOfWeek,
                                           req[p].userID)),
           weekRange |-> [start |-> DateKey(loc[p].startOfWeek),
                          end |-> DateKey(loc[p].endOfWeek)]]]
    /\ UNCHANGED <<store, req, lastDone>>

----------------------------------------------------------------------------
(* Store queries that fail: the client returns {data: null, error} and the
   handler goes on from there *)

\* the locals after a failed query; failedAt keeps the tables as they were
MarkFailed(l) ==
    [f \in DOMAIN l \cup {"failedAt"} |->
        IF f = "failedAt" THEN Tables
        ELSE IF f = "storeOps" THEN l.storeOps + 1
        ELSE l[f]]

HasFailed(p) == "failedAt" \in DOMAIN loc[p]

\* rsvp.ts 24-35: eventError set, if (eventError || !event) answers 404
RsvpPostCheckEventFails(p) ==
    /\ pc[p] = "rsvpCheckEvent"
    /\ loc' = [loc EXCEPT ![p] = MarkFailed(@)]
    /\ Done(p, Reply(404, "Event not found"))
    /\ UNCHANGED <<store, req, lastDone>>

\* rsvp.ts 38-48: rsvpCheckError set, existingRSVP null: the test
\* (existingRSVP && !rsvpCheckError) is false and the create path is taken
RsvpPostCheckRsvpFails(p) ==
    /\ pc[p] = "rsvpCheckRsvp"
    /\ loc' = [loc EXCEPT ![p] = [MarkFailed(@) EXCEPT !.existingRSVP = FALSE]]
    /\ Goto(p, "rsvpWrite")
    /\ UNCHANGED <<store, req, lastDone>>

\* rsvp.ts 63-66, 88-91: updateError or createError set
RsvpPostWriteFails(p) ==
    /\ pc[p] = "rsvpWrite"
    /\ loc' = [loc EXCEPT ![p] = MarkFailed(@)]
    /\ Done(p, Reply(500, IF loc[p].existingRSVP THEN "Failed to update RSVP"
                                               ELSE "Failed to create RSVP"))
    /\ UNCHANGED <<store, req, lastDone>>

\* subscriptions.ts 108-116: checkError set, answered 404
SubPutCheckFails(p) ==
    /\ pc[p] = "subPutCheck"
    /\ loc' = [loc EXCEPT ![p] = MarkFailed(@)]
    /\ Done(p, Reply(404, "Subscription not found"))
    /\ UNCHANGED <<store, req, lastDone>>

\* events.ts 570-575: eventsError set, answered 500
CalendarEventsFails(p) ==
    /\ pc[p] = "calEvents"
    /\ loc' = [loc EXCEPT ![p] = MarkFailed(@)]
    /\ Done(p, Reply(500, "Database error"))
    /\ UNCHANGED <<store, req, lastDone>>

\* events.ts 627-662: subscriptionsError is logged and the answer goes out
\* with userSubscriptions || []
CalendarSubscriptionsFails(p) ==
    /\ pc[p] = "calSubscriptions"
    /\ loc' = [loc EXCEPT ![p] = MarkFailed(@)]
    /\ pc' = [pc EXCEPT ![p] = "done"]
    /\ resp' = [resp EXCEPT ![p] =
          [code |-> 200, msg |-> "",
           calendarData |-> loc[p].calendarData,
           dateGrid |-> loc[p].dateGrid,
           dateRange |-> [start |-> DateKey(req[p].startDate),
                          end |-> DateKey(req[p].endDate)],
           userSubscriptions |-> {},
           statistics |->
               [totalEvents |-> Cardinality(loc[p].events),
                userRsvps |-> Cardinality({r \in UNION {x.rsvps : x \in loc[p].events} :
                                              r.userID = req[p].userID})]]]
    /\ UNCHANGED <<store, req, lastDone>>

----------------------------------------------------------------------------
(* Initial store: the seeded events, no RSVP, no subscription *)

SeedEvent(id, ticker, start) ==
    [eventID |-> id, eventName |-> "Q1 Earnings", tickerSymbol |-> ticker,
     gicsSector |-> "Technology", eventType |-> "EARNINGS_CALL",
     startDate |-> start, endDate |-> 0]

SeedEvents == {SeedEvent(1, "ACME", 2), SeedEvent(2, "BOLT", 3)}

InitSlots ==
    /\ pc = [p \in Slots |-> "idle"]
    /\ req = [p \in Slots |-> NoReq]
    /\ loc = [p \in Slots |-> NoLoc]
    /\ resp = [p \in Slots |-> NoResp]
    /\ lastDone = NoDone

Init ==
    /\ events = SeedEvents
    /\ rsvps = EmptyBag
    /\ subs = {}
    /\ gicsCompanies = <<>>
    /\ nextEventID = 3
    /\ nextSubID = 1
    /\ InitSlots

----------------------------------------------------------------------------
(* RSVP requests, one at a time *)

\* eventID inputs: the seeded events, an id no event has, and a missing id
RsvpEventInputs == {0, 1, 2, 3}

\* status inputs: the valid ones, one that is not, and a missing one
RsvpStatusInputs == validStatuses \cup {"MAYBE", ""}

NextRsvp ==
    \/ \E u \in Users, e \in RsvpEventInputs, s \in RsvpStatusInputs :
          Sequential(1) /\ RsvpRoom(u, e) /\ RsvpPostBegin(1, u, e, s)
    \/ RsvpPostCheckEvent(1)
    \/ RsvpPostCheckRsvp(1)
    \/ RsvpPostWrite(1)
    \/ \E u \in Users, e \in RsvpEventInputs \ {0} :
          Sequential(1) /\ RsvpDeleteBegin(1, u, e)
    \/ RsvpDeleteFind(1)
    \/ RsvpDeleteRemove(1)
    \/ \E u \in Users, named \in Users :
          Sequential(1) /\ RsvpUserBegin(1, u, named)
    \/ RsvpUserQuery(1)
    \/ Finish(1)

SpecRsvp == Init /\ [][NextRsvp]_vars

----------------------------------------------------------------------------
(* Subscription requests, one at a time *)

SubCallers == {"michael", "david"}
SubSectorInputs == {"", "Technology"}
SubCategoryInputs == {"", "Software"}
SubEndInputs == {""}
SubIDInputs == 1..(MaxSubs + 1)

PutBody(gicsSector, gicsSubCategory, subEnd, status) ==
    [gicsSector |-> gicsSector, gicsSubCategory |-> gicsSubCategory,
     subEnd |-> subEnd, status |-> status]

\* PUT bodies: every choice of sub-category and status, and one body that
\* supplies all four fields
PutBodies ==
    {PutBody(Undefined, cat, Undefined, st) :
        cat \in {Undefined, Null, "Software"},
        st \in {Undefined, "ACTIVE", "INACTIVE", "PAUSED"}}
    \cup {PutBody("Technology", "Software", Null, "INACTIVE")}

NextSub ==
    \/ \E u \in SubCallers, sec \in SubSectorInputs, cat \in SubCategoryInputs,
          e \in SubEndInputs :
          Sequential(1) /\ SubPostBegin(1, u, sec, cat, e)
    \/ SubPostCheck(1)
    \/ SubPostInsert(1)
    \/ \E u \in SubCallers, id \in SubIDInputs, b \in PutBodies :
          Sequential(1) /\ SubPutBegin(1, u, id, b.gicsSector, b.gicsSubCategory,
                                        b.subEnd, b.status)
    \/ SubPutCheck(1)
    \/ SubPutWrite(1)
    \/ \E u \in SubCallers, id \in SubIDInputs :
          Sequential(1) /\ SubDeleteBegin(1, u, id)
    \/ SubDeleteCheck(1)
    \/ SubDeleteRemove(1)
    \/ Finish(1)

SpecSub == Init /\ [][NextSub]_vars

----------------------------------------------------------------------------
(* Event requests, one at a time, on a store with no event yet *)

InitEvent ==
    /\ events = {}
    /\ rsvps = EmptyBag
    /\ subs = {}
    /\ gicsCompanies = <<>>
    /\ nextEventID = 1
    /\ nextSubID = 1
    /\ InitSlots

Ticks == 1..MaxTick
\* (eventName, eventType) of a POST body: both good, either missing, a type
\* that is no event type
PostNameTypes == {<<"Q1 Earnings", "EARNINGS_CALL">>, <<"", "EARNINGS_CALL">>,
                  <<"Q1 Earnings", "">>, <<"Q1 Earnings", "WEBINAR">>}

\* (eventName, eventType) of a PUT body: neither supplied, both, a bad type
PutNameTypes == {<<"", "">>, <<"Q1 Earnings", "EARNINGS_CALL">>, <<"", "WEBINAR">>}
EventIDInputs == 1..(MaxEvents + 1)

NextEvent ==
    \/ \E u \in Users, nt \in PostNameTypes, sd \in {0} \cup Ticks, ed \in {0} \cup Ticks :
          Sequential(1) /\ EventPostBegin(1, u, nt[1], nt[2], sd, ed)
    \/ EventPostInsert(1)
    \/ \E u \in Users, id \in EventIDInputs, nt \in PutNameTypes,
          sd \in {0} \cup Ticks, ed \in {-1, 0} \cup Ticks :
          Sequential(1) /\ EventPutBegin(1, u, id, nt[1], nt[2], sd, ed)
    \/ EventPutCheck(1)
    \/ EventPutWrite(1)
    \/ \E u \in Users, id \in EventIDInputs :
          Sequential(1) /\ EventDeleteBegin(1, u, id)
    \/ EventDeleteCheck(1)
    \/ EventDeleteRemove(1)
    \/ Finish(1)

SpecEvent == InitEvent /\ [][NextEvent]_vars

----------------------------------------------------------------------------
(* Calendar requests on a seeded store *)

Company(ticker, name) ==
    [tickerSymbol |-> ticker, companyName |-> name,
     gicsSector |-> "Technology", gicsSubCategory |-> "Software"]

\* the catalog, in companyName order; only the first two have events
AllCompanies ==
    <<Company("ACME", "Acme Corp"), Company("BOLT", "Bolt Inc"),
      Company("CRUX", "Crux Ltd"), Company("DYNE", "Dyne Plc")>>

InitCalendar ==
    /\ events = SeedEvents
    /\ rsvps = SetToBag({RsvpRow("david", 1, "ACCEPTED"), RsvpRow("michael", 1, "DECLINED")})
    /\ subs = {SubRow(1, "david", "Technology", Null, Null, "ACTIVE")}
    /\ \E n \in 0..MaxCompanies : gicsCompanies = SubSeq(AllCompanies, 1, n)
    /\ nextEventID = 3
    /\ nextSubID = 2
    /\ InitSlots

CalTicks == 1..MaxCalTick
CalSectorInputs == {"", "Energy"}
CalTypeInputs == {"", "EARNINGS_CALL"}
CalFollowedInputs == {{}, {"BOLT"}}

NextCalendar ==
    \/ \E u \in Users, sd \in CalTicks, ed \in CalTicks, sec \in CalSectorInputs,
          t \in CalTypeInputs, f \in CalFollowedInputs :
          Sequential(1) /\ CalendarBegin(1, u, sd, ed, sec, t, f)
    \/ CalendarEvents(1)
    \/ CalendarCompanies(1)
    \/ CalendarSubscriptions(1)
    \/ Finish(1)

SpecCalendar == InitCalendar /\ [][NextCalendar]_vars

----------------------------------------------------------------------------
(* Week view requests, one at a time *)

\* anchor dates: every weekday, at either time of day
WeekTicks == 0..MaxWeekTick

NextWeek ==
    \/ \E u \in Users, d \in WeekTicks : Sequential(1) /\ WeekBegin(1, u, d)
    \/ WeekEvents(1)
    \/ Finish(1)

SpecWeek == InitCalendar /\ [][NextWeek]_vars

----------------------------------------------------------------------------
(* Requests one at a time over a store whose queries may fail *)

NextFault ==
    \/ \E e \in RsvpEventInputs \ {0}, st \in {"TENTATIVE", "DECLINED"} :
          Sequential(1) /\ RsvpRoom("david", e) /\ RsvpPostBegin(1, "david", e, st)
    \/ RsvpPostCheckEvent(1)
    \/ RsvpPostCheckEventFails(1)
    \/ RsvpPostCheckRsvp(1)
    \/ RsvpPostCheckRsvpFails(1)
    \/ RsvpPostWrite(1)
    \/ RsvpPostWriteFails(1)
    \/ \E u \in SubCallers, id \in SubIDInputs, b \in PutBodies :
          Sequential(1) /\ SubPutBegin(1, u, id, b.gicsSector, b.gicsSubCategory,
                                        b.subEnd, b.status)
    \/ SubPutCheck(1)
    \/ SubPutCheckFails(1)
    \/ SubPutWrite(1)
    \/ \E sd \in {1, 2}, ed \in {3, 4} :
          Sequential(1) /\ CalendarBegin(1, "david", sd, ed, "", "", {})
    \/ CalendarEvents(1)
    \/ CalendarEventsFails(1)
    \/ CalendarCompanies(1)
    \/ CalendarSubscriptions(1)
    \/ CalendarSubscriptionsFails(1)
    \/ Finish(1)

SpecFault == InitCalendar /\ [][NextFault]_vars

----------------------------------------------------------------------------
(* POST /api/rsvp interleaved with DELETE /api/events/:id: requests of
   several slots take their store steps in any order *)

RaceEventInputs == {1}

NextRsvpEvent ==
    \/ \E p \in Slots, e \in RaceEventInputs :
          RsvpRoom("david", e) /\ RsvpPostBegin(p, "david", e, "ACCEPTED")
    \/ \E p \in Slots : RsvpPostCheckEvent(p)
    \/ \E p \in Slots : RsvpPostCheckRsvp(p)
    \/ \E p \in Slots : RsvpPostWrite(p)
    \/ \E p \in Slots, id \in RaceEventInputs :
          EventDeleteBegin(p, "sarah", id)
    \/ \E p \in Slots : EventDeleteCheck(p)
    \/ \E p \in Slots : EventDeleteRemove(p)
    \/ \E p \in Slots : Finish(p)

SpecRsvpEvent == Init /\ [][NextRsvpEvent]_vars

----------------------------------------------------------------------------
(* POST /api/rsvp from several slots at once *)

NextRsvpRace ==
    \/ \E p \in Slots, e \in {1, 3}, s \in {"ACCEPTED", "TENTATIVE"} :
          RsvpRoom("david", e) /\ RsvpPostBegin(p, "david", e, s)
    \/ \E p \in Slots : RsvpPostCheckEvent(p)
    \/ \E p \in Slots : RsvpPostCheckRsvp(p)
    \/ \E p \in Slots : RsvpPostWrite(p)
    \/ \E p \in Slots : Finish(p)

SpecRsvpRace == Init /\ [][NextRsvpRace]_vars

----------------------------------------------------------------------------
(* POST /api/subscriptions from several slots at once *)

NextSubRace ==
    \/ \E p \in Slots, sec \in SubSectorInputs, cat \in SubCategoryInputs :
          SubPostBegin(p, "david", sec, cat, "")
    \/ \E p \in Slots : SubPostCheck(p)
    \/ \E p \in Slots : SubPostInsert(p)
    \/ \E p \in Slots : Finish(p)

SpecSubRace == Init /\ [][NextSubRace]_vars

----------------------------------------------------------------------------
(* POST /api/rsvp and DELETE /api/rsvp/:eventID over a table that a race of
   creates may have left with several rows for one pair: creates sent while
   the table is empty run at once, every other request runs alone *)

\* the table holds at most one row more than its bound
RsvpDupRoom ==
    BagCardinality(rsvps)
      + Cardinality({q \in Slots : req[q].kind = "rsvpPost" /\ pc[q] # "done"})
      <= MaxRsvpRows

\* no request is under way, or only creates that found the table empty
RaceOrAlone ==
    \/ \A q \in Slots : Idle(q)
    \/ /\ rsvps = EmptyBag
       /\ \A q \in Slots :
             Idle(q) \/ (req[q].kind = "rsvpPost" /\ loc[q].before.rsvps = EmptyBag)

NextRsvpDup ==
    \/ \E p \in Slots, s \in {"ACCEPTED", "TENTATIVE"} :
          RaceOrAlone /\ RsvpDupRoom /\ RsvpPostBegin(p, "david", 1, s)
    \/ \E p \in Slots : RsvpPostCheckEvent(p)
    \/ \E p \in Slots : RsvpPostCheckRsvp(p)
    \/ \E p \in Slots : RsvpPostWrite(p)
    \/ \E p \in Slots : Sequential(p) /\ RsvpDeleteBegin(p, "david", 1)
    \/ \E p \in Slots : RsvpDeleteFind(p)
    \/ \E p \in Slots : RsvpDeleteRemove(p)
    \/ \E p \in Slots : Finish(p)

SpecRsvpDup == Init /\ [][NextRsvpDup]_vars

----------------------------------------------------------------------------
(* Properties of the RSVP handlers *)

\* number of rows of bag B (a table rsvps) for the pair (u, e)
RowsIn(B, u, e) ==
    BagCardinality([r \in {x \in BagToSet(B) : x.userID = u /\ x.eventID = e} |-> B[r]])

\* slot p has answered a request of kind k
Answered(p, k) == pc[p] = "done" /\ req[p].kind = k

\* the request answered before the one in slot p succeeded, was of kind k,
\* and was by the same user for the same event
After(p, k) ==
    /\ lastDone.kind = k
    /\ lastDone.req.userID = req[p].userID
    /\ lastDone.req.eventID = req[p].eventID

\* a second successful upsert of the pair, with another status than the first
SecondUpsert(p) ==
    /\ Answered(p, "rsvpPost")
    /\ resp[p].code = 200
    /\ After(p, "rsvpPost")
    /\ lastDone.req.status # req[p].status

\* the table holds exactly one row for the request's pair, with status s
OneRowWith(p, s) ==
    /\ RsvpCount(req[p].userID, req[p].eventID) = 1
    /\ CopiesIn(RsvpRow(req[p].userID, req[p].eventID, s), rsvps) = 1

\* C1: after two successive successful POST /rsvp by one user for one event,
\* with statuses s1 then s2, s1 # s2, and no other request in between, the
\* table holds exactly one row for the pair and its status is s2.
C1_TwoUpsertsLeaveLast ==
    \A p \in Slots : SecondUpsert(p) => OneRowWith(p, req[p].status)

C1_Witness ==
    \E p \in Slots : SecondUpsert(p) /\ OneRowWith(p, req[p].status)

CreatedMsg == "RSVP created successfully"
UpdatedMsg == "RSVP updated successfully"

\* C2: a successful POST /rsvp answers "created" exactly when the pair had no
\* row when the call started and "updated" exactly when it had one; after
\* create(ACCEPTED), upsert(TENTATIVE) answers "updated" and leaves the one
\* row TENTATIVE.
C2_CreatedOrUpdated ==
    \A p \in Slots :
        (Answered(p, "rsvpPost") /\ resp[p].code = 200) =>
            LET had == RowsIn(loc[p].before.rsvps, req[p].userID, req[p].eventID)
            IN  /\ resp[p].msg \in {CreatedMsg, UpdatedMsg}
                /\ resp[p].msg = CreatedMsg <=> had = 0
                /\ resp[p].msg = UpdatedMsg <=> had = 1
                /\ (/\ After(p, "rsvpPost")
                    /\ lastDone.msg = CreatedMsg
                    /\ lastDone.req.status = "ACCEPTED"
                    /\ req[p].status = "TENTATIVE")
                   => resp[p].msg = UpdatedMsg /\ OneRowWith(p, "TENTATIVE")

C2_Witness ==
    \E p \in Slots :
        /\ Answered(p, "rsvpPost")
        /\ resp[p].code = 200
        /\ After(p, "rsvpPost")
        /\ lastDone.msg = CreatedMsg
        /\ lastDone.req.status = "ACCEPTED"
        /\ req[p].status = "TENTATIVE"
        /\ resp[p].msg = UpdatedMsg
        /\ OneRowWith(p, "TENTATIVE")

\* C3: DELETE /rsvp/:eventID answers 404 and changes nothing when the pair
\* has no row; when it has one the row is removed and the answer is success;
\* so a delete right after a successful delete of the same pair answers 404.
C3_DeleteThenNotFound ==
    \A p \in Slots :
        Answered(p, "rsvpDelete") =>
            LET had == RowsIn(loc[p].before.rsvps, req[p].userID, req[p].eventID)
            IN  /\ had = 0 => resp[p].code = 404 /\ rsvps = loc[p].before.rsvps
                /\ had = 1 => /\ resp[p].code = 200
                              /\ RsvpCount(req[p].userID, req[p].eventID) = 0
                              /\ BagCardinality(rsvps) + 1
                                   = BagCardinality(loc[p].before.rsvps)
                /\ After(p, "rsvpDelete") => resp[p].code = 404

C3_Witness ==
    \E p \in Slots :
        /\ Answered(p, "rsvpDelete")
        /\ After(p, "rsvpDelete")
        /\ resp[p].code = 404
        /\ BagCardinality(rsvps) > 0

\* the event the request names was in the table when the call started
EventKnown(p) == \E ev \in loc[p].before.events : ev.eventID = req[p].eventID

\* C9 as stated: POST /rsvp with an eventID that references no existing event
\* answers 404 and leaves the rows as they were.
C9_Original ==
    \A p \in Slots :
        (Answered(p, "rsvpPost") /\ req[p].eventID # 0 /\ ~EventKnown(p)) =>
            resp[p].code = 404 /\ rsvps = loc[p].before.rsvps

RsvpStatusSet == {"ACCEPTED", "DECLINED", "TENTATIVE", "PENDING"}

\* C9 amended: POST /rsvp with an eventID that references no existing event
\* leaves the rows as they were; it answers 404 when the status is one of
\* the four valid values, and 400 when the status is missing or invalid.
C9_UnknownEvent ==
    \A p \in Slots :
        (Answered(p, "rsvpPost") /\ req[p].eventID # 0 /\ ~EventKnown(p)) =>
            /\ rsvps = loc[p].before.rsvps
            /\ resp[p].code = (IF req[p].status \in RsvpStatusSet THEN 404 ELSE 400)

C9_Witness ==
    \E p \in Slots :
        /\ Answered(p, "rsvpPost")
        /\ ~EventKnown(p)
        /\ req[p].eventID # 0
        /\ resp[p].code = 404
        /\ BagCardinality(rsvps) > 0

\* C10: every stored RSVP has a status among the four; a POST /rsvp with
\* another status answers 400 before any store access and leaves the rows
\* as they were.
C10_StatusValid ==
    /\ \A r \in BagToSet(rsvps) : r.status \in RsvpStatusSet
    /\ \A p \in Slots :
          (Answered(p, "rsvpPost") /\ req[p].status \notin RsvpStatusSet) =>
              /\ resp[p].code = 400
              /\ loc[p].storeOps = 0
              /\ rsvps = loc[p].before.rsvps

C10_Witness ==
    \E p \in Slots :
        /\ Answered(p, "rsvpPost")
        /\ req[p].status = "MAYBE"
        /\ req[p].eventID \in {1, 2}
        /\ resp[p].code = 400
        /\ BagCardinality(rsvps) > 0

----------------------------------------------------------------------------
(* Properties of the subscription handlers *)

\* the sub-category of a create request: an absent one is null
TupleCategory(p) ==
    IF req[p].gicsSubCategory = "" THEN Null ELSE req[p].gicsSubCategory

\* ACTIVE subscriptions with the request's (userID, sector, subCategory) that
\* were stored when the call started; null matches null and nothing else
SameTupleBefore(p) ==
    {r \in loc[p].before.subs :
        /\ r.userID = req[p].userID
        /\ r.gicsSector = req[p].gicsSector
        /\ r.gicsSubCategory = TupleCategory(p)
        /\ r.status = "ACTIVE"}

\* C4: a POST /subscriptions issued while an ACTIVE subscription with the
\* same (userID, sector, subCategory) exists, an absent subCategory matching
\* only an absent one, answers 409 and inserts nothing.
C4_Original ==
    \A p \in Slots :
        (Answered(p, "subPost") /\ SameTupleBefore(p) # {}) =>
            resp[p].code = 409 /\ subs = loc[p].before.subs

\* the subscription the request names, as stored when the call started
NamedBefore(p) == {r \in loc[p].before.subs : r.subID = req[p].id}

NotOwner(p) == \E r \in NamedBefore(p) : r.userID # req[p].userID

\* C5: PUT /subscriptions/:id by a caller who is not the stored userID of the
\* subscription answers 403, and the subscription (the whole table) is as it
\* was before the call.
C5_NonOwnerPutForbidden ==
    \A p \in Slots :
        (Answered(p, "subPut") /\ NotOwner(p)) =>
            resp[p].code = 403 /\ subs = loc[p].before.subs

C5_Witness ==
    \E p \in Slots :
        /\ Answered(p, "subPut")
        /\ NotOwner(p)
        /\ req[p].status = "INACTIVE"
        /\ req[p].gicsSubCategory = "Software"
        /\ resp[p].code = 403
        /\ NamedBefore(p) \subseteq subs

----------------------------------------------------------------------------
(* Properties of the event handlers *)

\* C6: POST /events by an IR_ADMIN with an endDate earlier than or equal to
\* startDate answers 400 and inserts no event.
C6_EndNotAfterStartRejected ==
    \A p \in Slots :
        (/\ Answered(p, "eventPost")
         /\ Role(req[p].userID) = "IR_ADMIN"
         /\ req[p].startDate > 0
         /\ req[p].endDate > 0
         /\ req[p].endDate <= req[p].startDate) =>
            resp[p].code = 400 /\ events = loc[p].before.events

C6_Witness ==
    \E p \in Slots :
        /\ Answered(p, "eventPost")
        /\ Role(req[p].userID) = "IR_ADMIN"
        /\ req[p].eventName # ""
        /\ req[p].eventType = "EARNINGS_CALL"
        /\ req[p].startDate > 0
        /\ req[p].endDate = req[p].startDate
        /\ resp[p] = Reply(400, "End date must be after start date")

----------------------------------------------------------------------------
(* Properties of the calendar grid *)

\* the calendar dates from the date of start to the date of end, in order
DatesBetween(start, end) ==
    [i \in 1..(DateKey(end) - DateKey(start) + 1) |-> DateKey(start) + i - 1]

\* C7: for every start <= end given to GET /calendar the date axis has one
\* entry per calendar date from start to end inclusive, none repeated or
\* skipped (31 entries from 2024-03-01 to 2024-03-31).
C7_Original ==
    \A p \in Slots :
        (Answered(p, "calendar") /\ req[p].startDate <= req[p].endDate) =>
            resp[p].dateGrid = DatesBetween(req[p].startDate, req[p].endDate)

\* C8: the grid has one row per company of the catalog, in catalog order,
\* whatever events are in range and whatever filters apply; with an empty
\* catalog the grid is empty and the date axis is still populated.
C8_RowPerCompany ==
    \A p \in Slots :
        (Answered(p, "calendar") /\ resp[p].code = 200) =>
            /\ Len(resp[p].calendarData) = Len(gicsCompanies)
            /\ \A i \in 1..Len(gicsCompanies) :
                  resp[p].calendarData[i].company = gicsCompanies[i]
            /\ (gicsCompanies = <<>> /\ req[p].startDate <= req[p].endDate) =>
                  resp[p].calendarData = <<>> /\ resp[p].dateGrid # <<>>

C8_Witness ==
    \E p \in Slots :
        /\ Answered(p, "calendar")
        /\ resp[p].code = 200
        /\ req[p].followedCompanies # {}
        /\ Len(resp[p].calendarData) = 2
        /\ DOMAIN resp[p].calendarData[1].events = {}
        /\ DOMAIN resp[p].calendarData[2].events # {}

----------------------------------------------------------------------------
(* C11: after DELETE /events/:id has succeeded no RSVP row references the
   deleted event, and in every state reached by interleaving event deletions
   with POST /rsvp every RSVP row references an event that exists. *)

Orphans == {r \in BagToSet(rsvps) : \A ev \in events : ev.eventID # r.eventID}

C11_NoOrphanRsvp ==
    /\ Orphans = {}
    /\ \A p \in Slots :
          Answered(p, "eventDelete") /\ resp[p].code = 200
             => \A r \in BagToSet(rsvps) : r.eventID # req[p].id

\* an event that had an RSVP row is deleted while a POST /rsvp for it is under
\* way; the POST, past its event lookup, is refused its write
C11_Witness ==
    \E p, q \in Slots :
       /\ Answered(p, "eventDelete") /\ resp[p].code = 200
       /\ \E r \in BagToSet(loc[p].before.rsvps) : r.eventID = req[p].id
       /\ Answered(q, "rsvpPost") /\ req[q].eventID = req[p].id
       /\ Ops(q) = 3 /\ resp[q].code = 500

----------------------------------------------------------------------------
(* C12: POST, PUT and DELETE /events succeed only for a caller whose role is
   IR_ADMIN; a caller with another role is answered 403 before the handler
   body runs: no store access is made and the events are unchanged. *)

EventWrites == {"eventPost", "eventPut", "eventDelete"}

C12_OnlyAdminWritesEvents ==
    \A p \in Slots :
       req[p].kind \in EventWrites =>
          /\ Role(req[p].userID) # "IR_ADMIN" =>
                /\ pc[p] = "done"
                /\ resp[p].code = 403
                /\ Ops(p) = 0
                /\ events = loc[p].before.events
          /\ resp[p].code \in {200, 201} => Role(req[p].userID) = "IR_ADMIN"

\* a manager sends a well-formed PUT for an event that exists
C12_Witness ==
    \E p \in Slots :
       /\ Answered(p, "eventPut")
       /\ Role(req[p].userID) = "ANALYST_MANAGER"
       /\ \E ev \in events : ev.eventID = req[p].id
       /\ req[p].eventName # "" /\ req[p].startDate > 0 /\ req[p].endDate = 0
       /\ resp[p].code = 403

----------------------------------------------------------------------------
(* C13: PUT and DELETE /subscriptions/:id answer 404 when no subscription has
   the id and 403 when it exists and its userID is not the caller's; in both
   cases no subscription is modified or removed.  DELETE removes a
   subscription only when the caller owns it, and then only that one. *)

C13_SubNotFoundOrForbidden ==
    \A p \in Slots :
       (pc[p] = "done" /\ req[p].kind \in {"subPut", "subDelete"}) =>
          /\ NamedBefore(p) = {} =>
                resp[p].code = 404 /\ subs = loc[p].before.subs
          /\ NotOwner(p) =>
                resp[p].code = 403 /\ subs = loc[p].before.subs
          /\ (req[p].kind = "subDelete" /\ subs # loc[p].before.subs) =>
                /\ \E r \in NamedBefore(p) : r.userID = req[p].userID
                /\ subs = loc[p].before.subs \ NamedBefore(p)
                /\ resp[p].code = 200

\* a DELETE for a subscription of somebody else, answered 403, the row kept
C13_Witness ==
    \E p \in Slots :
       /\ Answered(p, "subDelete")
       /\ NotOwner(p)
       /\ resp[p].code = 403
       /\ NamedBefore(p) # {} /\ NamedBefore(p) \subseteq subs

----------------------------------------------------------------------------
(* C14: in the answer of GET /calendar each event of a day bucket carries the
   requesting user's own RSVP as its overlay, and no RSVP record of any
   other user. *)

\* the entries of all day buckets of an answered calendar request
BucketEntries(p) ==
    UNION {UNION {resp[p].calendarData[i].events[d] :
                     d \in DOMAIN resp[p].calendarData[i].events} :
             i \in DOMAIN resp[p].calendarData}

C14_Original ==
    \A p \in Slots :
       Answered(p, "calendar") =>
          \A x \in BucketEntries(p) :
             /\ x.userRsvp = UserRsvp(EventRsvps(x.event), req[p].userID)
             /\ \A r \in x.rsvps : r.userID = req[p].userID

----------------------------------------------------------------------------
(* C15: for every anchor date d, on any weekday, Sunday included, GET
   /calendar/week answers exactly seven day buckets, of consecutive dates,
   running from a Monday to a Sunday, and d is one of the seven dates. *)

C15_Original ==
    \A p \in Slots :
       Answered(p, "week") =>
          LET w == resp[p].weekData
          IN  /\ Len(w) = 7
              /\ \A i \in 1..6 : w[i + 1].date = w[i].date + 1
              /\ w[1].dayName = "Monday" /\ w[7].dayName = "Sunday"
              /\ \E i \in 1..7 : w[i].date = DateKey(req[p].date)

----------------------------------------------------------------------------
(* C16: whenever a store query of a request fails, the request is answered
   500 and makes no store write after the failure; this covers a failed
   existence lookup in POST /rsvp, a failed event or subscription lookup and
   a failed subscription fetch in GET /calendar. *)

C16_Original ==
    \A p \in Slots :
       (pc[p] = "done" /\ HasFailed(p)) =>
          resp[p].code = 500 /\ Tables = loc[p].failedAt

----------------------------------------------------------------------------
(* C17: GET /rsvp/user/:userID answers the RSVP rows of the named user when
   the caller is that user or has role ANALYST_MANAGER or IR_ADMIN, and 403
   when an INVESTMENT_ANALYST names another user; no POST or DELETE /rsvp
   creates, changes or removes an RSVP row of a user other than the caller. *)

\* the rows of table B that belong to users other than u
RowsOfOthers(B, u) ==
    LET others == {r \in BagToSet(B) : r.userID # u}
    IN  [r \in others |-> B[r]]

----------------------------------------------------------------------------
(* C18: two POST /rsvp of one user for one event, sent while no row exists
   for the pair and interleaved so that both existence lookups run before
   either insert, both take the create path and both insert: the table then
   holds two rows for the pair. *)

\* slot p started with no row for its pair and its lookup found none
FoundNoRow(p) ==
    /\ req[p].kind = "rsvpPost"
    /\ Ops(p) = 3
    /\ ~loc[p].existingRSVP
    /\ RowsIn(loc[p].before.rsvps, req[p].userID, req[p].eventID) = 0

C18_RaceBothCreate ==
    \A p, q \in Slots :
       (/\ p # q
        /\ pc[p] = "done" /\ pc[q] = "done"
        /\ FoundNoRow(p) /\ FoundNoRow(q)
        /\ req[p].userID = req[q].userID /\ req[p].eventID = req[q].eventID) =>
          /\ resp[p] = Reply(200, CreatedMsg)
          /\ resp[q] = Reply(200, CreatedMsg)
          /\ RowsIn(rsvps, req[p].userID, req[p].eventID) >= 2

C18_Witness ==
    \E p, q \in Slots :
       /\ p # q
       /\ pc[p] = "done" /\ pc[q] = "done"
       /\ FoundNoRow(p) /\ FoundNoRow(q)
       /\ req[p].userID = req[q].userID /\ req[p].eventID = req[q].eventID
       /\ resp[p].msg = CreatedMsg /\ resp[q].msg = CreatedMsg
       /\ RowsIn(rsvps, req[p].userID, req[p].eventID) = 2

----------------------------------------------------------------------------
(* C19: two POST /subscriptions of one user for one (sector, subCategory),
   sent while the user has no ACTIVE subscription for it and interleaved so
   that both duplicate lookups run before either insert, are both answered
   201, neither 409, and leave two ACTIVE subscriptions for the tuple. *)

\* slot p started with no ACTIVE row for its tuple and went on to insert
PassedDuplicateCheck(p) ==
    /\ req[p].kind = "subPost"
    /\ Ops(p) = 2
    /\ SameTupleBefore(p) = {}

\* the ACTIVE rows of the tuple that the request of slot p names
ActiveForTuple(p) ==
    {r \in subs : /\ r.userID = req[p].userID
                  /\ r.gicsSector = req[p].gicsSector
                  /\ r.gicsSubCategory = TupleCategory(p)
                  /\ r.status = "ACTIVE"}

C19_RaceBothSubscribe ==
    \A p, q \in Slots :
       (/\ p # q
        /\ pc[p] = "done" /\ pc[q] = "done"
        /\ PassedDuplicateCheck(p) /\ PassedDuplicateCheck(q)
        /\ req[p].userID = req[q].userID
        /\ req[p].gicsSector = req[q].gicsSector
        /\ TupleCategory(p) = TupleCategory(q)) =>
          /\ resp[p].code = 201 /\ resp[q].code = 201
          /\ Cardinality(ActiveForTuple(p)) >= 2

\* the race on a tuple with a sub-category, where a lookup after the first
\* insert would have answered 409
C19_Witness ==
    \E p, q \in Slots :
       /\ p # q
       /\ pc[p] = "done" /\ pc[q] = "done"
       /\ PassedDuplicateCheck(p) /\ PassedDuplicateCheck(q)
       /\ req[p].gicsSector = req[q].gicsSector
       /\ req[p].gicsSubCategory = "Software" /\ req[q].gicsSubCategory = "Software"
       /\ resp[p].code = 201 /\ resp[q].code = 201
       /\ Cardinality(ActiveForTuple(p)) = 2

----------------------------------------------------------------------------
(* C20: in every state reached by POST, PUT and DELETE /subscriptions made
   one at a time there is at most one ACTIVE subscription for each (userID,
   sector, subCategory), also after a PUT that sets the status back to
   ACTIVE or changes the sector or the sub-category.  Stated here for the
   tuples that have a sub-category; C4 is about those that have none. *)

C20_Original ==
    \A r1, r2 \in subs :
       (/\ r1.status = "ACTIVE" /\ r2.status = "ACTIVE"
        /\ r1.userID = r2.userID
        /\ r1.gicsSector = r2.gicsSector
        /\ r1.gicsSubCategory = r2.gicsSubCategory
        /\ r1.gicsSubCategory # Null) => r1 = r2

----------------------------------------------------------------------------
(* C21: in every state reached by POST /events and PUT /events/:id requests
   every stored event that has an end timestamp has it strictly after its
   start timestamp, also after a PUT that supplies only a new startDate or
   only a new endDate. *)

C21_Original ==
    \A ev \in events : ev.endDate > 0 => ev.endDate > ev.startDate

----------------------------------------------------------------------------
(* C24: a successful PUT /events/:id changes exactly the fields supplied in
   the body to the supplied values and leaves every other field of the event
   unchanged; a body that supplies endDate without startDate stores the
   supplied endDate. *)

\* the row ev with the fields that body b supplies set to b's values (an
\* endDate of null clears the end)
Supplied(ev, b) ==
    [ev EXCEPT
       !.eventName = IF b.eventName # "" THEN b.eventName ELSE @,
       !.eventType = IF b.eventType # "" THEN b.eventType ELSE @,
       !.startDate = IF b.startDate > 0 THEN b.startDate ELSE @,
       !.endDate = IF b.endDate > 0 THEN b.endDate
                   ELSE IF b.endDate = -1 THEN 0 ELSE @]

C24_Original ==
    \A p \in Slots :
       (Answered(p, "eventPut") /\ resp[p].code = 200) =>
          events = {IF ev.eventID = req[p].id THEN Supplied(ev, req[p]) ELSE ev :
                       ev \in loc[p].before.events}

----------------------------------------------------------------------------
(* C22: a POST /rsvp or DELETE /rsvp/:eventID of user u changes only RSVP
   rows whose userID is u and whose eventID is the event of the request:
   every row of another user, and every row of u for another event, is the
   same after the call as before it. *)

\* the rows of table B other than those of the pair (u, e)
RowsOutside(B, u, e) ==
    LET rest == {r \in BagToSet(B) : ~(r.userID = u /\ r.eventID = e)}
    IN  [r \in rest |-> B[r]]

C22_OnlyOwnPairChanges ==
    \A p \in Slots :
       (pc[p] = "done" /\ req[p].kind \in {"rsvpPost", "rsvpDelete"}) =>
          RowsOutside(rsvps, req[p].userID, req[p].eventID)
             = RowsOutside(loc[p].before.rsvps, req[p].userID, req[p].eventID)

\* a DELETE that removed the caller's row for one event while the caller
\* has a row for another event
C22_Witness ==
    \E p \in Slots :
       /\ Answered(p, "rsvpDelete") /\ resp[p].code = 200
       /\ RowsIn(loc[p].before.rsvps, req[p].userID, req[p].eventID) = 1
       /\ RowsIn(rsvps, req[p].userID, req[p].eventID) = 0
       /\ \E r \in BagToSet(rsvps) :
             r.userID = req[p].userID /\ r.eventID # req[p].eventID

----------------------------------------------------------------------------
(* C23: a POST /rsvp of user u for event e sent when at least one row for
   (u, e) exists never increases the number of rows for (u, e), and a DELETE
   /rsvp/:eventID sent when at least one such row exists is never answered
   404; both also when two or more rows for (u, e) exist after a race. *)

\* rows for the pair of the request of slot p, when the request started
PairRowsBefore(p) == RowsIn(loc[p].before.rsvps, req[p].userID, req[p].eventID)

C23_Original ==
    \A p \in Slots :
       /\ (Answered(p, "rsvpPost") /\ PairRowsBefore(p) >= 1) =>
             RowsIn(rsvps, req[p].userID, req[p].eventID) <= PairRowsBefore(p)
       /\ (Answered(p, "rsvpDelete") /\ PairRowsBefore(p) >= 1) =>
             resp[p].code # 404

====
